---- MODULE Spec2Model ----
(***************************************************************************)
(* A model of src/app.rs: the App main loop (run), its input handling      *)
(* (handle_crossterm_events, on_key_event, quit) and the layout that       *)
(* render computes for one frame (Layout::vertical / Layout::horizontal    *)
(* with their margin, spacing and constraints, Block::inner, and the       *)
(* number of samples generated for the bar graphs).                        *)
(***************************************************************************)
EXTENDS Integers, Sequences, FiniteSets

\* ------------------------------------------------------------------ bounds

\* The number of loop iterations (frames drawn, events read) explored.
MaxFrames == 4
\* Canvas widths 0..MaxWidth and heights 0..MaxHeight are explored, plus the
\* WideWidths below.
MaxWidth == 44
MaxHeight == 24

\* ------------------------------------------------------------------ events

\* KeyModifiers is a bit set; three of its bits are enough to tell "no
\* modifier", "exactly CONTROL" and "CONTROL with something else" apart.
KeyModifiers == SUBSET {"CONTROL", "SHIFT", "ALT"}

\* KeyCode::Esc, Char('q'), Char('Q'), Char('c'), Char('C'), and two codes no
\* arm of on_key_event names: another character and a non-character key.
KeyCodes == {"Esc", "q", "Q", "c", "C", "x", "Enter"}

KeyEventKinds == {"Press", "Repeat", "Release"}

KeyEvents ==
    [type : {"Key"}, kind : KeyEventKinds, code : KeyCodes, modifiers : KeyModifiers]

\* The events that are no key event: Mouse, Resize, and the variants the
\* catch-all arm takes (FocusGained, FocusLost, Paste).
OtherEvents ==
    [type : {"Mouse", "Resize", "FocusGained", "FocusLost", "Paste"},
     kind : {"None"}, code : {"None"}, modifiers : {{}}]

Events == KeyEvents \cup OtherEvents

\* No event is being handled.
NoEvent == [type |-> "None", kind |-> "None", code |-> "None", modifiers |-> {}]

\* ---------------------------------------------------------------- handlers

\* App::quit: self.exit = true.
QuitToggles(ex) == ~ex
Quit(ex) == TRUE

\* The pattern of on_key_event's first arm:
\*   (_, Esc | Char('q')) | (CONTROL, Char('c') | Char('C'))
MatchesQuitNoEsc(key) ==
    \/ key.code = "q"
    \/ key.modifiers = {"CONTROL"} /\ key.code \in {"c", "C"}
MatchesQuitAnyC(key) ==
    \/ key.code \in {"Esc", "q"}
    \/ key.code \in {"c", "C"}
MatchesQuit(key) ==
    \/ key.code \in {"Esc", "q"}
    \/ key.modifiers = {"CONTROL"} /\ key.code \in {"c", "C"}

\* App::on_key_event: the value of self.exit after the call.
OnKeyEvent(ex, key) == IF MatchesQuit(key) THEN Quit(ex) ELSE ex

\* The guard of the first arm of handle_crossterm_events:
\*   Event::Key(key) if key.kind == KeyEventKind::Press
IsKeyPress(e) == e.type = "Key" /\ e.kind = "Press"

\* The match of handle_crossterm_events on the event read: the value of
\* self.exit after it.
HandleAnyKind(ex, e) == IF e.type = "Key" THEN OnKeyEvent(ex, e) ELSE ex
HandleEvent(ex, e) == IF IsKeyPress(e) THEN OnKeyEvent(ex, e) ELSE ex

\* ------------------------------------------------------------------ layout

\* u16 arithmetic is arithmetic modulo 2^16.
U16Modulus == 2 ^ 16

\* .margin(4) of the top-level vertical layout.
Margin == 4
\* .spacing(1) of the top-level vertical layout.
VerticalSpacing == 1
\* .spacing(2) of the two horizontal layouts.
HorizontalSpacing == 2

Rect(x, y, w, h) == [x |-> x, y |-> y, width |-> w, height |-> h]

\* Rect::ZERO
ZeroRect == Rect(0, 0, 0, 0)

Length(n) == [kind |-> "Length", n |-> n]
Fill(w) == [kind |-> "Fill", n |-> w]

\* The constraints of Layout::vertical in render.
VerticalConstraintsAllFill == <<Fill(1), Fill(1), Fill(2), Fill(1)>>
VerticalConstraints == <<Length(1), Fill(1), Fill(2), Fill(1)>>
\* [Constraint::Fill(1); 2], the split of the top band.
TopConstraints == <<Fill(1), Fill(1)>>
\* [Fill(1), Fill(2)], the split of the mid band.
MidConstraints == <<Fill(1), Fill(2)>>

\* The area a layout splits: the area shrunk by the margin on every side, or
\* Rect::ZERO when the area cannot hold the margins.
InnerKeepsOrigin(area, m) ==
    IF area.width < 2 * m \/ area.height < 2 * m
    THEN ZeroRect
    ELSE Rect(area.x, area.y, area.width - 2 * m, area.height - 2 * m)
Inner(area, m) ==
    IF area.width < 2 * m \/ area.height < 2 * m
    THEN ZeroRect
    ELSE Rect(area.x + m, area.y + m, area.width - 2 * m, area.height - 2 * m)

\* The cells the first k constraints fix (Length), and the weight of the
\* first k constraints that share what is left (Fill).
RECURSIVE Fixed(_, _)
Fixed(cs, k) ==
    IF k = 0 THEN 0
    ELSE Fixed(cs, k - 1) + (IF cs[k].kind = "Length" THEN cs[k].n ELSE 0)

RECURSIVE Weight(_, _)
Weight(cs, k) ==
    IF k = 0 THEN 0
    ELSE Weight(cs, k - 1) + (IF cs[k].kind = "Fill" THEN cs[k].n ELSE 0)

\* The solver works in hundredths of a cell: num/den cells, rounded to a
\* whole number of hundredths (a half rounds up).
Hundredths(num, den) == (200 * num + den) \div (2 * den)

\* A position in hundredths rounded to a cell (a half rounds up).
Cell(p) == (p + 50) \div 100

\* The segments of one layout along its direction, [start, end) in cells, for
\* an area that starts at `start` and is `size` cells long.  The spacers
\* between segments come first, then the Length segments, and the Fill
\* segments share what is left in proportion to their weights; every boundary
\* is placed exactly and then rounded.  When the area is shorter than the
\* spacers want, every segment is empty and the spacers share the area: each
\* takes at most the spacing, and which of them takes what is not fixed by
\* the constraints, so every such placement is a possible result.
Segments(cs, spacing, start, size) ==
    LET n == Len(cs)
        need == spacing * (n - 1) + Fixed(cs, n)
        T == Weight(cs, n)
        R == size - need
        Share(k) == IF T = 0 THEN 0 ELSE Hundredths(R * Weight(cs, k), T)
        From(i) == 100 * (start + Fixed(cs, i - 1) + spacing * (i - 1)) + Share(i - 1)
        To(i) == 100 * (start + Fixed(cs, i) + spacing * (i - 1)) + Share(i)
    IN  IF size >= need
        THEN {[i \in 1..n |-> [start |-> Cell(From(i)), end |-> Cell(To(i))]]}
        ELSE {[i \in 1..n |-> [start |-> p[i], end |-> p[i]]] :
                p \in {q \in [1..n -> start..(start + size)] :
                          /\ q[1] = start
                          /\ q[n] = start + size
                          /\ \A i \in 1..(n - 1) : q[i + 1] - q[i] \in 0..spacing}}

\* Layout::vertical(cs).spacing(spacing).margin(m).areas(area): the possible
\* results, each a sequence of Rects.
LayoutVertical(cs, spacing, m, area) ==
    LET inner == Inner(area, m)
    IN  {[i \in 1..Len(cs) |->
            Rect(inner.x, s[i].start, inner.width, s[i].end - s[i].start)] :
          s \in Segments(cs, spacing, inner.y, inner.height)}

\* Layout::horizontal(cs).spacing(spacing).areas(area)
LayoutHorizontal(cs, spacing, m, area) ==
    LET inner == Inner(area, m)
    IN  {[i \in 1..Len(cs) |->
            Rect(s[i].start, inner.y, s[i].end - s[i].start, inner.height)] :
          s \in Segments(cs, spacing, inner.x, inner.width)}

\* Block::inner for a block with Borders::TOP: the area below the top border.
BlockInner(area) ==
    Rect(area.x,
         IF area.height = 0 THEN area.y ELSE area.y + 1,
         area.width,
         IF area.height = 0 THEN 0 ELSE area.height - 1)

\* The regions render computes for a frame of the given area: the four bands
\* and the four panels.
RenderRegions(area) ==
    UNION {UNION {{[header |-> v[1], top |-> v[2], mid |-> v[3], bottom |-> v[4],
                    cpu |-> t[1], gpu |-> t[2], disk |-> m[1], memory |-> m[2]] :
                      m \in LayoutHorizontal(MidConstraints, HorizontalSpacing, 0, v[3])} :
                  t \in LayoutHorizontal(TopConstraints, HorizontalSpacing, 0, v[2])} :
            v \in LayoutVertical(VerticalConstraints, VerticalSpacing, Margin, area)}

\* (0..inner.width * 2): the product is a u16.  A build with overflow checks
\* panics when it does not fit; a build without them keeps it modulo 2^16.
SampleCount(w) ==
    IF 2 * w < U16Modulus
    THEN {[panic |-> FALSE, n |-> 2 * w]}
    ELSE {[panic |-> TRUE, n |-> 0], [panic |-> FALSE, n |-> (2 * w) % U16Modulus]}

\* ------------------------------------------------------------ the main loop

\* The terminal sizes a frame can have.  Besides the small ones, three wide
\* ones: the u16 maximum, and the two widths around the first at which the
\* Memory panel is 2^15 cells wide.
WideWidths == {49161, 49162, 65535}
Widths == (0..MaxWidth) \cup WideWidths
Heights == 0..MaxHeight

VARIABLES
    pc,       \* where run is: "while", "draw", "drawn", "read", or how it ended:
              \* "returned_ok", "returned_err", "panicked"
    exit,     \* App.exit
    event,    \* the event handle_crossterm_events has just handled, or NoEvent
    canvas,   \* frame.area() of the frame being drawn
    regions,  \* the regions render computed for it
    samples,  \* the number of samples each graph panel generated for it
    renders,  \* completed terminal.draw calls
    reads,    \* events read
    ignored,  \* events read that were no key press
    quits,    \* calls of App::quit
    failed    \* a collaborator call (terminal.draw, event::read) returned an error

vars == <<pc, exit, event, canvas, regions, samples, renders, reads, ignored, quits, failed>>

NoRegions ==
    [header |-> ZeroRect, top |-> ZeroRect, mid |-> ZeroRect, bottom |-> ZeroRect,
     cpu |-> ZeroRect, gpu |-> ZeroRect, disk |-> ZeroRect, memory |-> ZeroRect]

NoSamples == [cpu |-> 0, gpu |-> 0, memory |-> 0]

\* App::new(): exit is false (Default); run has not started its first iteration.
Init ==
    /\ pc = "while"
    /\ exit = FALSE
    /\ event = NoEvent
    /\ canvas = ZeroRect
    /\ regions = NoRegions
    /\ samples = NoSamples
    /\ renders = 0
    /\ reads = 0
    /\ ignored = 0
    /\ quits = 0
    /\ failed = FALSE

\* while !self.exit: the loop goes on.
WhileCheckAlways ==
    /\ pc = "while"
    /\ renders < MaxFrames
    /\ pc' = "draw"
    /\ event' = NoEvent
    /\ UNCHANGED <<exit, canvas, regions, samples, renders, reads, ignored, quits, failed>>
WhileCheck ==
    /\ pc = "while"
    /\ ~exit
    /\ renders < MaxFrames
    /\ pc' = "draw"
    /\ event' = NoEvent
    /\ UNCHANGED <<exit, canvas, regions, samples, renders, reads, ignored, quits, failed>>

\* while !self.exit: the loop ends, and run returns Ok(()).
Return ==
    /\ pc = "while"
    /\ exit
    /\ pc' = "returned_ok"
    /\ UNCHANGED <<exit, event, canvas, regions, samples, renders, reads, ignored, quits, failed>>

\* terminal.draw calls render for a frame of the terminal's size: render splits
\* the area and renders the panels, the three graph panels generating their
\* samples (CPU, GPU, then Memory).
Render ==
    /\ pc = "draw"
    /\ \E w \in Widths, h \in Heights :
         /\ canvas' = Rect(0, 0, w, h)
         /\ \E r \in RenderRegions(Rect(0, 0, w, h)) :
              /\ regions' = r
              /\ \E c \in SampleCount(BlockInner(r.cpu).width),
                    g \in SampleCount(BlockInner(r.gpu).width),
                    m \in SampleCount(BlockInner(r.memory).width) :
                   /\ samples' = [cpu |-> c.n, gpu |-> g.n, memory |-> m.n]
                   /\ pc' = IF c.panic \/ g.panic \/ m.panic THEN "panicked" ELSE "drawn"
    /\ UNCHANGED <<exit, event, renders, reads, ignored, quits, failed>>

\* terminal.draw returns Ok: the frame is complete and dropped.
DrawDone ==
    /\ pc = "drawn"
    /\ pc' = "read"
    /\ renders' = renders + 1
    /\ canvas' = ZeroRect
    /\ regions' = NoRegions
    /\ samples' = NoSamples
    /\ UNCHANGED <<exit, event, reads, ignored, quits, failed>>

\* terminal.draw returns an error (before or after it called render), and the
\* ? operator returns it from run.
DrawFailRetries ==
    /\ pc \in {"draw", "drawn"}
    /\ pc' = "while"
    /\ failed' = TRUE
    /\ canvas' = ZeroRect
    /\ regions' = NoRegions
    /\ samples' = NoSamples
    /\ UNCHANGED <<exit, event, renders, reads, ignored, quits>>
DrawFail ==
    /\ pc \in {"draw", "drawn"}
    /\ pc' = "returned_err"
    /\ failed' = TRUE
    /\ canvas' = ZeroRect
    /\ regions' = NoRegions
    /\ samples' = NoSamples
    /\ UNCHANGED <<exit, event, renders, reads, ignored, quits>>

\* event::read() returns an error, and the ? operators return it from
\* handle_crossterm_events and from run.
ReadFail ==
    /\ pc = "read"
    /\ pc' = "returned_err"
    /\ failed' = TRUE
    /\ UNCHANGED <<exit, event, canvas, regions, samples, renders, reads, ignored, quits>>

\* event::read() returns an event and handle_crossterm_events handles it.
ReadEventAgain ==
    /\ pc = "read"
    /\ reads < MaxFrames
    /\ \E e \in Events :
         /\ event' = e
         /\ exit' = HandleEvent(exit, e)
         /\ ignored' = IF IsKeyPress(e) THEN ignored ELSE ignored + 1
         /\ quits' = IF IsKeyPress(e) /\ MatchesQuit(e) THEN quits + 1 ELSE quits
    /\ reads' = reads + 1
    /\ pc' = "read"
    /\ UNCHANGED <<canvas, regions, samples, renders, failed>>
ReadEvent ==
    /\ pc = "read"
    /\ \E e \in Events :
         /\ event' = e
         /\ exit' = HandleEvent(exit, e)
         /\ ignored' = IF IsKeyPress(e) THEN ignored ELSE ignored + 1
         /\ quits' = IF IsKeyPress(e) /\ MatchesQuit(e) THEN quits + 1 ELSE quits
    /\ reads' = reads + 1
    /\ pc' = "while"
    /\ UNCHANGED <<canvas, regions, samples, renders, failed>>

Next ==
    \/ WhileCheck
    \/ Return
    \/ Render
    \/ DrawDone
    \/ DrawFail
    \/ ReadFail
    \/ ReadEvent

Spec == Init /\ [][Next]_vars

\* The loop test is a step of the one thread of control: it is not put off
\* forever.  (The blocking read may wait forever.)
FairSpec == Spec /\ WF_vars(Return)

\* handle_crossterm_events applied to an App in any state the handlers can
\* leave it in, one event after another, without the loop around it.
Deliver ==
    /\ reads < MaxFrames
    /\ \E e \in Events :
         /\ event' = e
         /\ exit' = HandleEvent(exit, e)
         /\ ignored' = IF IsKeyPress(e) THEN ignored ELSE ignored + 1
         /\ quits' = IF IsKeyPress(e) /\ MatchesQuit(e) THEN quits + 1 ELSE quits
    /\ reads' = reads + 1
    /\ UNCHANGED <<pc, canvas, regions, samples, renders, failed>>

SpecHandler == Init /\ [][Deliver]_vars

\* ------------------------------------------------------------------ claims

\* The quit keys as the specification's transition table lists them: Escape;
\* 'q' or 'Q' without modifiers; 'c' or 'C' with the control modifier.
TableQuitKey(e) ==
    \/ e.code = "Esc"
    \/ e.code \in {"q", "Q"} /\ e.modifiers = {}
    \/ e.code \in {"c", "C"} /\ e.modifiers = {"CONTROL"}

\* The table without 'Q', and with 'q' under any modifiers.
AmendedQuitKey(e) ==
    \/ e.code = "Esc"
    \/ e.code = "q"
    \/ e.code \in {"c", "C"} /\ e.modifiers = {"CONTROL"}

\* A step that read and handled one event.
HandledOne == reads' = reads + 1

\* C1 as stated: after a key press of Escape, 'q', 'Q', Ctrl+'c' or Ctrl+'C'
\* has been handled (from exit = false, as the loop only reads then), exit is
\* true.
C1_AsStated == (IsKeyPress(event) /\ TableQuitKey(event)) => exit

\* C1, amended: after a key press of Escape, of 'q', or of 'c' or 'C' with
\* exactly the control modifier has been handled, exit is true; after a key
\* press of 'Q' it is still false.
C1_QuitKeysSetExit ==
    /\ (IsKeyPress(event) /\ AmendedQuitKey(event)) => exit
    /\ (IsKeyPress(event) /\ event.code = "Q") => ~exit

C1_Witness ==
    /\ reads = 1
    /\ IsKeyPress(event)
    /\ event.code = "C"
    /\ event.modifiers = {"CONTROL"}
    /\ exit

\* C2 as stated: handling a key press that is none of Escape, 'q' or 'Q'
\* without modifiers, 'c' or 'C' with the control modifier leaves exit
\* unchanged ('q' with a modifier included).
C2_AsStated ==
    [][(HandledOne /\ IsKeyPress(event') /\ ~TableQuitKey(event')) => exit' = exit]_vars

\* C2, amended: handling a key press that is none of Escape (any modifiers),
\* 'q' (any modifiers), 'c' or 'C' with exactly the control modifier leaves
\* exit unchanged; 'Q' is among those no-ops, 'q' with a modifier is not.
C2_OtherKeysLeaveExit ==
    [][(HandledOne /\ IsKeyPress(event') /\ ~AmendedQuitKey(event')) => exit' = exit]_vars

C2_Witness ==
    /\ reads = 2
    /\ IsKeyPress(event)
    /\ event.code = "c"
    /\ event.modifiers = {"CONTROL", "SHIFT"}
    /\ ~exit

\* C3: handling an event that is no key press (mouse, resize, focus, paste, a
\* key release or repeat of any key) leaves exit unchanged; so as long as
\* every event read was such an event exit is still false, and after three of
\* them a press of 'q' sets it.
C3_OnlyPressActs ==
    /\ [](ignored = reads => ~exit)
    /\ [][(HandledOne /\ ~IsKeyPress(event')) => exit' = exit]_vars

C3_Witness ==
    /\ reads = 4
    /\ ignored = 3
    /\ IsKeyPress(event)
    /\ event.code = "q"
    /\ event.modifiers = {}
    /\ exit

\* C4: exit starts false (running), and once it is true (stopped) no event
\* makes it false again: a quit key press handled when it is already true
\* leaves it true.
C4_StoppedIsTerminal == ~exit /\ [][exit => exit']_vars

C4_Witness == exit /\ quits >= 2 /\ reads >= 3

\* C5: render passes and event reads alternate, a render first: the completed
\* render passes equal the events read when the loop is at its test or
\* drawing, and exceed them by one when it waits for an event.
C5_RenderReadAlternate ==
    /\ pc \in {"while", "draw", "drawn", "returned_ok", "panicked"} => renders = reads
    /\ pc = "read" => renders = reads + 1
    /\ pc = "returned_err" => renders \in {reads, reads + 1}

C5_Witness == pc = "read" /\ renders = 3 /\ reads = 2

\* C6: once a collaborator call has failed, run has returned the failure:
\* exit is as it was (false), and no render pass completes and no event is
\* read after it.
C6_FailureEndsRun ==
    /\ [](failed => (pc = "returned_err" /\ ~exit))
    /\ [][failed => (pc' = pc /\ renders' = renders /\ reads' = reads /\ exit' = exit)]_vars

C6_Witness == failed /\ pc = "returned_err" /\ renders = 2 /\ reads = 1

\* C7 as stated: every graph panel of a rendered frame generated exactly 2w
\* samples, w the width of its interior.
C7_AsStated ==
    pc \in {"drawn", "panicked"} =>
        \A p \in {"cpu", "gpu", "memory"} :
            samples[p] = 2 * BlockInner(regions[p]).width

\* Two rectangles share a cell.
Overlap(a, b) ==
    /\ a.width > 0 /\ a.height > 0 /\ b.width > 0 /\ b.height > 0
    /\ a.x < b.x + b.width /\ b.x < a.x + a.width
    /\ a.y < b.y + b.height /\ b.y < a.y + a.height

\* Every cell of r is a cell of the area, at least m cells from its edges.
InsideMargin(r, area, m) ==
    \/ r.width = 0
    \/ r.height = 0
    \/ /\ r.x >= area.x + m
       /\ r.y >= area.y + m
       /\ r.x + r.width <= area.x + area.width - m
       /\ r.y + r.height <= area.y + area.height - m

Panels == {"cpu", "gpu", "disk", "memory"}

\* C8: for a canvas at least 32 wide and at least as high as the bands'
\* minimum heights sum to (1: the header's row), the four panel regions share
\* no cell and lie inside the canvas, 4 cells from its edges.
C8_PanelsDisjointInside ==
    (pc \in {"drawn", "panicked"} /\ canvas.width >= 8 * 4 /\ canvas.height >= 1) =>
        /\ \A p \in Panels : InsideMargin(regions[p], canvas, 4)
        /\ \A p, q \in Panels : p # q => ~Overlap(regions[p], regions[q])

C8_Witness ==
    /\ pc = "drawn"
    /\ canvas.width = 43
    /\ canvas.height = 23
    /\ \A p \in Panels : regions[p].width > 0 /\ regions[p].height > 0

\* C9 as stated: the header band of every rendered frame is 1 cell high.
C9_AsStated == pc \in {"drawn", "panicked"} => regions.header.height = 1

\* C9, amended: the header band is 1 cell high on every canvas at least 8
\* wide and 12 high (the margins, the header row and the three spacer rows),
\* and 0 cells high on a canvas that cannot hold the margins.
C9_HeaderHeight ==
    pc \in {"drawn", "panicked"} =>
        /\ (canvas.width >= 8 /\ canvas.height >= 12) => regions.header.height = 1
        /\ (canvas.width < 8 \/ canvas.height < 8) => regions.header.height = 0

C9_Witness ==
    /\ pc = "drawn"
    /\ canvas.width = 8
    /\ canvas.height = 12
    /\ regions.header.height = 1

\* C10: run has returned Ok only if quit was called, which happens once; once
\* it was called no further render pass or event read happens and run does
\* return Ok.
C10_ReturnsIffQuit ==
    /\ [](pc = "returned_ok" => (quits = 1 /\ ~failed))
    /\ [](quits >= 1 => pc \in {"while", "returned_ok"})
    /\ [][quits >= 1 => (renders' = renders /\ reads' = reads)]_vars
    /\ (quits >= 1 ~> pc = "returned_ok")

C10_Witness == pc = "returned_ok" /\ quits = 1 /\ reads = 3 /\ renders = 3

====
